---------------------------- MODULE Spec2Model ----------------------------
(***************************************************************************)
(* Model of MDAnalysis/analysis/encore/covariance.py: the maximum          *)
(* likelihood estimator, the Ledoit-Wolf shrinkage estimator with its      *)
(* memoized shrinkage parameter, and covariance_matrix with its default    *)
(* estimator argument and mass weighting.                                  *)
(*                                                                         *)
(* Numbers are numpy float64 values modelled as exact rationals extended   *)
(* with the IEEE special values: <<n, d>> with d > 0 in lowest terms is    *)
(* n/d, <<0, 0>> is nan, <<1, 0>> is +inf and <<-1, 0>> is -inf.  numpy    *)
(* does not raise on a float division by zero (its default error state     *)
(* only warns), it yields nan or +-inf, and so does Div.  Rounding is not  *)
(* modelled; every zero divisor of the code is a sum of squares (+0.0).    *)
(***************************************************************************)
EXTENDS Integers, Sequences, FiniteSets, TLC

(***************************************************************************)
(* Bounds of the model.                                                    *)
(***************************************************************************)
MaxT == 3

(***************************************************************************)
(* float64 arithmetic                                                      *)
(***************************************************************************)
\* Python's None; no vector or matrix of the model is empty
None == <<>>

Abs(n) == IF n < 0 THEN -n ELSE n

Sgn(n) == IF n < 0 THEN -1 ELSE IF n > 0 THEN 1 ELSE 0

RECURSIVE Gcd(_, _)
Gcd(a, b) == IF b = 0 THEN a ELSE Gcd(b, a % b)

NaN == <<0, 0>>

Inf(s) == <<s, 0>>

IsNaN(a) == a = NaN

IsFin(a) == a[2] > 0

IsInf(a) == a[2] = 0 /\ a[1] # 0

\* n/d for integers n and d > 0, in lowest terms
Rat(n, d) == LET g == Gcd(Abs(n), d) IN <<n \div g, d \div g>>

Num(n) == <<n, 1>>

Zero == <<0, 1>>

One == <<1, 1>>

\* the sign of a value that is not nan
SignOf(a) == Sgn(a[1])

Neg(a) == <<-a[1], a[2]>>

Add(a, b) ==
    IF IsNaN(a) \/ IsNaN(b) THEN NaN
    ELSE IF IsInf(a) /\ IsInf(b) THEN (IF a = b THEN a ELSE NaN)
    ELSE IF IsInf(a) THEN a
    ELSE IF IsInf(b) THEN b
    ELSE LET g == Gcd(a[2], b[2])
         IN  Rat(a[1] * (b[2] \div g) + b[1] * (a[2] \div g), (a[2] \div g) * b[2])

Sub(a, b) == Add(a, Neg(b))

Mul(a, b) ==
    IF IsNaN(a) \/ IsNaN(b) THEN NaN
    ELSE IF IsInf(a) \/ IsInf(b)
         THEN (IF SignOf(a) = 0 \/ SignOf(b) = 0 THEN NaN ELSE Inf(SignOf(a) * SignOf(b)))
    ELSE LET g1 == Gcd(Abs(a[1]), b[2])
             g2 == Gcd(Abs(b[1]), a[2])
         IN  <<(a[1] \div g1) * (b[1] \div g2), (a[2] \div g2) * (b[2] \div g1)>>

Div(a, b) ==
    IF IsNaN(a) \/ IsNaN(b) THEN NaN
    ELSE IF IsInf(b) THEN (IF IsInf(a) THEN NaN ELSE Zero)
    ELSE IF IsInf(a) THEN (IF SignOf(b) < 0 THEN Neg(a) ELSE a)
    ELSE IF b[1] = 0 THEN (IF a[1] = 0 THEN NaN ELSE Inf(SignOf(a)))
    ELSE Mul(a, <<SignOf(b) * b[2], Abs(b[1])>>)

\* a < b as float64 compares: False when either is nan
Lt(a, b) ==
    /\ ~IsNaN(a)
    /\ ~IsNaN(b)
    /\ a # b
    /\ IF IsInf(a) THEN a[1] < 0
       ELSE IF IsInf(b) THEN b[1] > 0
       ELSE SignOf(Sub(a, b)) < 0

Le(a, b) == ~IsNaN(a) /\ ~IsNaN(b) /\ (a = b \/ Lt(a, b))

\* a == b as float64 compares: nan equals nothing
FEq(a, b) == ~IsNaN(a) /\ ~IsNaN(b) /\ a = b

\* Python's builtin min(a, b) and max(a, b): the first argument unless the
\* second compares strictly below (above) it
PyMin(a, b) == IF Lt(b, a) THEN b ELSE a

PyMax(a, b) == IF Lt(a, b) THEN b ELSE a

\* the exact square root of a perfect square
Sqrt(a) ==
    LET rn == CHOOSE r \in 0..a[1] : r * r = a[1]
        rd == CHOOSE r \in 1..a[2] : r * r = a[2]
    IN  <<rn, rd>>

(***************************************************************************)
(* vectors and matrices: sequences, and sequences of rows                  *)
(***************************************************************************)
RECURSIVE ToSeq(_, _)
ToSeq(f, n) == IF n = 0 THEN <<>> ELSE Append(ToSeq(f, n - 1), f[n])

MkVec(n, F(_)) == ToSeq([i \in 1..n |-> F(i)], n)

MkMat(r, c, F(_, _)) == ToSeq([i \in 1..r |-> ToSeq([j \in 1..c |-> F(i, j)], c)], r)

RECURSIVE SumSeq(_)
SumSeq(s) == IF Len(s) = 0 THEN Zero ELSE Add(SumSeq(SubSeq(s, 1, Len(s) - 1)), s[Len(s)])

\* np.sum of a matrix
SumMat(m) == SumSeq(MkVec(Len(m), LAMBDA i : SumSeq(m[i])))

Rows(m) == Len(m)

Cols(m) == Len(m[1])

\* np.dot(np.transpose(a), b)
DotT(a, b) ==
    MkMat(Cols(a), Cols(b),
          LAMBDA i, j : SumSeq(MkVec(Rows(a), LAMBDA f : Mul(a[f][i], b[f][j]))))

\* np.dot(a, b)
Dot(a, b) ==
    MkMat(Rows(a), Cols(b),
          LAMBDA i, j : SumSeq(MkVec(Cols(a), LAMBDA k : Mul(a[i][k], b[k][j]))))

\* np.average(x, axis=0)
ColMean(x) ==
    MkVec(Cols(x), LAMBDA j : Div(SumSeq(MkVec(Rows(x), LAMBDA f : x[f][j])), Num(Rows(x))))

\* x - v, the vector v broadcast over the rows
Center(x, v) == MkMat(Rows(x), Cols(x), LAMBDA f, j : Sub(x[f][j], v[j]))

ZeroVec(n) == MkVec(n, LAMBDA i : Zero)

(***************************************************************************)
(* EstimatorML.calculate                                                   *)
(***************************************************************************)
\* np.cov with the divisor T in the place of T - 1
NpCovBiased(coordinates) ==
    LET X == Center(coordinates, ColMean(coordinates))
        c == DotT(X, X)
    IN  MkMat(Cols(X), Cols(X), LAMBDA i, j : Div(c[i][j], Num(Rows(coordinates))))

\* np.cov(coordinates, rowvar=0): deviations from the column means, their
\* products summed and multiplied by 1/(T - 1); with T = 1 the factor is
\* 1/0.0 = inf
NpCov(coordinates) ==
    LET X == Center(coordinates, ColMean(coordinates))
        fact == Num(Rows(coordinates) - 1)
        c == DotT(X, X)
    IN  MkMat(Cols(X), Cols(X), LAMBDA i, j : Mul(c[i][j], Div(One, fact)))

\* the branch with a reference, the sum divided by T - 1
MLReferenceUnbiased(coordinates, reference_coordinates) ==
    LET coordinates_offset == Center(coordinates, reference_coordinates)
        coordinates_cov == DotT(coordinates_offset, coordinates_offset)
    IN  MkMat(Cols(coordinates), Cols(coordinates),
              LAMBDA i, j : Div(coordinates_cov[i][j], Num(Rows(coordinates) - 1)))

\* the branch with a reference
MLReference(coordinates, reference_coordinates) ==
    LET coordinates_offset == Center(coordinates, reference_coordinates)
        coordinates_cov == DotT(coordinates_offset, coordinates_offset)
    IN  MkMat(Cols(coordinates), Cols(coordinates),
              LAMBDA i, j : Div(coordinates_cov[i][j], Num(Rows(coordinates))))

EstimatorML_calculate(coordinates, reference_coordinates) ==
    IF reference_coordinates # None
    THEN MLReference(coordinates, reference_coordinates)
    ELSE NpCov(coordinates)

(***************************************************************************)
(* EstimatorShrinkage                                                      *)
(***************************************************************************)
\* __init__
EstimatorShrinkage_init(shrinkage_parameter) == shrinkage_parameter

\* x - mean_x, mean_x the reference when one is given
Centered(coordinates, reference_coordinates) ==
    Center(coordinates,
           IF reference_coordinates # None THEN reference_coordinates
           ELSE ColMean(coordinates))

\* xmkt = np.average(x, axis=1)
Xmkt(x) ==
    MkVec(Rows(x), LAMBDA f : Div(SumSeq(x[f]), Num(Cols(x))))

\* EstimatorML()(np.hstack([x, xmkt[:, np.newaxis]]), 0) * (t-1)/float(t),
\* the (n+1) x (n+1) matrix before it is split
Augmented(x, xmkt) ==
    MkMat(Rows(x), Cols(x) + 1, LAMBDA f, j : IF j <= Cols(x) THEN x[f][j] ELSE xmkt[f])

Scaled(ml, t) ==
    MkMat(Rows(ml), Cols(ml), LAMBDA i, j : Div(Mul(ml[i][j], Num(t - 1)), Num(t)))

AugmentedSample(x) ==
    Scaled(EstimatorML_calculate(Augmented(x, Xmkt(x)), ZeroVec(Cols(x) + 1)), Rows(x))

Covmkt(full, n) == MkVec(n, LAMBDA i : full[i][n + 1])

Varmkt(full, n) == full[n + 1][n + 1]

Sample(full, n) == MkMat(n, n, LAMBDA i, j : full[i][j])

\* np.outer(covmkt, covmkt)/varmkt with the diagonal of sample written over it
Prior(sample, covmkt, varmkt) ==
    MkMat(Len(covmkt), Len(covmkt),
          LAMBDA i, j : IF i = j THEN sample[i][i]
                        ELSE Div(Mul(covmkt[i], covmkt[j]), varmkt))

Sq(a) == Mul(a, a)

\* c = np.linalg.norm(sample - prior, ord='fro')**2
FrobeniusSq(sample, prior) ==
    SumMat(MkMat(Rows(sample), Cols(sample),
                 LAMBDA i, j : Sq(Sub(sample[i][j], prior[i][j]))))

\* y = x**2
Squares(x) == MkMat(Rows(x), Cols(x), LAMBDA f, j : Sq(x[f][j]))

\* p = 1/float(t)*np.sum(np.dot(np.transpose(y), y)) - np.sum(np.sum(sample**2))
PTerm(t, y, sample) ==
    Sub(Mul(Div(One, Num(t)), SumMat(DotT(y, y))), SumMat(Squares(sample)))

\* rdiag = 1/float(t)*np.sum(np.sum(y**2)) - np.sum(np.diag(sample)**2)
Rdiag(t, y, sample) ==
    Sub(Mul(Div(One, Num(t)), SumMat(Squares(y))),
        SumSeq(MkVec(Rows(sample), LAMBDA i : Sq(sample[i][i]))))

\* z = x * np.repeat(xmkt[:, np.newaxis], n, axis=1)
ZTerm(x, xmkt) == MkMat(Rows(x), Cols(x), LAMBDA f, j : Mul(x[f][j], xmkt[f]))

\* v1 = 1/float(t) * np.dot(np.transpose(y), z)
\*      - np.repeat(covmkt[:, np.newaxis], n, axis=1)*sample
V1(t, yz, covmkt, sample) ==
    MkMat(Rows(sample), Cols(sample),
          LAMBDA i, j : Sub(Mul(Div(One, Num(t)), yz[i][j]), Mul(covmkt[i], sample[i][j])))

\* roff1: v1 summed against covmkt repeated along the rows, less its diagonal
Roff1(v1, covmkt, varmkt) ==
    Sub(Div(SumMat(MkMat(Rows(v1), Cols(v1), LAMBDA i, j : Mul(v1[i][j], covmkt[j]))),
            varmkt),
        Div(SumSeq(MkVec(Rows(v1), LAMBDA i : Mul(v1[i][i], covmkt[i]))), varmkt))

\* v3 = 1/float(t)*np.dot(np.transpose(z), z) - varmkt*sample
V3(t, zz, varmkt, sample) ==
    MkMat(Rows(sample), Cols(sample),
          LAMBDA i, j : Sub(Mul(Div(One, Num(t)), zz[i][j]), Mul(varmkt, sample[i][j])))

\* roff3: v3 summed against np.outer(covmkt, covmkt), less its diagonal
Roff3(v3, covmkt, varmkt) ==
    Sub(Div(SumMat(MkMat(Rows(v3), Cols(v3),
                         LAMBDA i, j : Mul(v3[i][j], Mul(covmkt[i], covmkt[j])))),
            Sq(varmkt)),
        Div(SumSeq(MkVec(Rows(v3), LAMBDA i : Mul(v3[i][i], Sq(covmkt[i])))),
            Sq(varmkt)))

\* roff = 2*roff1 - roff3; r = rdiag + roff; k = (p - r)/c; the value is
\* k/float(t)
Intensity(t, p, rdiag, roff1, roff3, c) ==
    Div(Div(Sub(p, Add(rdiag, Sub(Mul(Num(2), roff1), roff3))), c), Num(t))

IntensityFrom(t, y, z, sample, prior, covmkt, varmkt) ==
    Intensity(t, PTerm(t, y, sample), Rdiag(t, y, sample),
              Roff1(V1(t, DotT(y, z), covmkt, sample), covmkt, varmkt),
              Roff3(V3(t, DotT(z, z), varmkt, sample), covmkt, varmkt),
              FrobeniusSq(sample, prior))

\* k/float(t) of lines 154-181
EstimateShrinkage(x, sample, prior, covmkt, varmkt) ==
    IntensityFrom(Rows(x), Squares(x), ZTerm(x, Xmkt(x)), sample, prior, covmkt, varmkt)

\* the clamp without its upper end
ClampedBelowOnly(v) == PyMax(Zero, v)

\* max(0, min(1, k/float(t)))
Clamped(v) == PyMax(Zero, PyMin(One, v))

\* sigma = shrinkage_parameter*prior + (1 - shrinkage_parameter)*sample
Blend(shrinkage_parameter, prior, sample) ==
    MkMat(Rows(sample), Cols(sample),
          LAMBDA i, j : Add(Mul(shrinkage_parameter, prior[i][j]),
                            Mul(Sub(One, shrinkage_parameter), sample[i][j])))

\* the matrix returned and the attribute afterwards, with varmkt and
\* k/float(t) (None when the parameter was not estimated) as the call had them
Returned(shrinkage_parameter, prior, sample, varmkt, raw) ==
    [sigma |-> Blend(shrinkage_parameter, prior, sample),
     shrinkage_parameter |-> shrinkage_parameter,
     varmkt |-> varmkt, raw |-> raw]

\* line 182 and lines 184-187
StoreEstimate(raw, prior, sample, varmkt) ==
    Returned(Clamped(raw), prior, sample, varmkt, raw)

\* the estimate made on every call, whatever the instance holds
ShrinkWithAlwaysEstimate(shrinkage_parameter, x, sample, prior, covmkt, varmkt) ==
    StoreEstimate(EstimateShrinkage(x, sample, prior, covmkt, varmkt),
                  prior, sample, varmkt)

\* lines 153-187, the prior at hand
ShrinkWith(shrinkage_parameter, x, sample, prior, covmkt, varmkt) ==
    IF shrinkage_parameter = None
    THEN StoreEstimate(EstimateShrinkage(x, sample, prior, covmkt, varmkt),
                       prior, sample, varmkt)
    ELSE Returned(shrinkage_parameter, prior, sample, varmkt, None)

\* lines 144-151, the augmented matrix at hand
ShrinkSplit(shrinkage_parameter, x, sample, covmkt, varmkt) ==
    ShrinkWith(shrinkage_parameter, x, sample, Prior(sample, covmkt, varmkt), covmkt, varmkt)

ShrinkFull(shrinkage_parameter, x, full) ==
    ShrinkSplit(shrinkage_parameter, x, Sample(full, Cols(x)), Covmkt(full, Cols(x)),
                Varmkt(full, Cols(x)))

ShrinkCentered(shrinkage_parameter, x) ==
    ShrinkFull(shrinkage_parameter, x, AugmentedSample(x))

\* calculate on an instance whose attribute is shrinkage_parameter
EstimatorShrinkage_calculate(shrinkage_parameter, coordinates, reference_coordinates) ==
    ShrinkCentered(shrinkage_parameter, Centered(coordinates, reference_coordinates))

(***************************************************************************)
(* covariance_matrix                                                       *)
(***************************************************************************)
\* the number of coordinates of an atom
Axes == 3

\* np.repeat(masses, 3)
RepeatMasses(masses) == MkVec(Axes * Len(masses), LAMBDA i : masses[((i - 1) \div Axes) + 1])

\* np.sqrt(np.identity(len(masses))*masses)
MassMatrix(masses) ==
    MkMat(Len(masses), Len(masses),
          LAMBDA i, j : Sqrt(Mul(IF i = j THEN One ELSE Zero, masses[j])))

\* the mass weighting of lines 251-258
Weighted(sigma, mass_weighted, masses) ==
    IF mass_weighted
    THEN LET mass_matrix == MassMatrix(RepeatMasses(masses))
         IN  Dot(mass_matrix, Dot(sigma, mass_matrix))
    ELSE sigma

(***************************************************************************)
(* The state: the observations the caller holds, the shrinkage_parameter   *)
(* attribute of the two EstimatorShrinkage instances (the one line 194     *)
(* constructs once, as the default of covariance_matrix's estimator        *)
(* argument, and the caller's own), and the last call with what it         *)
(* returned, until the caller goes on.                                     *)
(***************************************************************************)
VARIABLES coordinates, shrinkage_parameter, call

vars == <<coordinates, shrinkage_parameter, call>>

\* the frames of a one-atom ensemble
Frames == {<<1, 2, 3>>, <<0, 0, 0>>, <<1, 0, 0>>}

\* the frame of the reference structure
ReferenceFrames == {<<1, 2, 3>>}

\* the frames the ML estimator is tried on
FramesML == {<<1, 2>>, <<3, 4>>, <<5, 6>>, <<0, 3>>, <<2, 2>>, <<4>>, <<1>>}

\* atomic masses, perfect squares
MassVals == {1, 4}

\* the values a caller sets the shrinkage parameter to
ExplicitParameters == {Zero, Rat(1, 2), Num(2)}

ToNums(m) == MkMat(Len(m), Len(m[1]), LAMBDA f, j : Num(m[f][j]))

\* the observation matrices of least..MaxT frames drawn from F, all of one
\* width
Observations(F, least) ==
    {ToNums(m) : m \in {q \in UNION {[1..t -> F] : t \in least..MaxT} :
                            \A f \in 1..Len(q) : Len(q[f]) = Len(q[1])}}

\* the references a call may be given: none, the column mean, a frame
References(x, F) ==
    {None, ColMean(x)} \cup {ToNums(<<f>>)[1] : f \in {g \in F : Len(g) = Cols(x)}}

NoCall ==
    [op |-> "none", estimator |-> "none", reference |-> None, before |-> None,
     mass_weighted |-> FALSE, masses |-> None, varmkt |-> None, raw |-> None,
     sigma |-> None, result |-> None]

Init ==
    /\ coordinates \in Observations(Frames, 2)
    /\ shrinkage_parameter = [default |-> EstimatorShrinkage_init(None),
                              own |-> EstimatorShrinkage_init(None)]
    /\ call = NoCall

\* the caller has taken what the last call returned and goes on
Continue ==
    /\ call.op # "none"
    /\ call' = NoCall
    /\ UNCHANGED <<coordinates, shrinkage_parameter>>

\* the caller turns to another ensemble, of two frames or more
LoadEnsemble ==
    /\ call.op = "none"
    /\ coordinates' \in Observations(Frames, 2)
    /\ UNCHANGED <<shrinkage_parameter, call>>

\* the caller constructs a new estimator of its own
NewEstimator ==
    /\ call.op = "none"
    /\ \E p \in ExplicitParameters \cup {None} :
          shrinkage_parameter' = [shrinkage_parameter EXCEPT !.own = EstimatorShrinkage_init(p)]
    /\ UNCHANGED <<coordinates, call>>

\* EstimatorML.calculate(coordinates, reference)
CallML ==
    /\ call.op = "none"
    /\ \E reference \in References(coordinates, ReferenceFrames) :
          LET sigma == EstimatorML_calculate(coordinates, reference)
          IN  call' = [NoCall EXCEPT !.op = "EstimatorML", !.estimator = "ML",
                                     !.reference = reference,
                                     !.sigma = sigma, !.result = sigma]
    /\ UNCHANGED <<coordinates, shrinkage_parameter>>

\* the state after the caller's own EstimatorShrinkage returned r
ShrinkageReturns(reference, r) ==
    /\ call' = [NoCall EXCEPT !.op = "EstimatorShrinkage", !.estimator = "own",
                              !.reference = reference,
                              !.before = shrinkage_parameter.own,
                              !.varmkt = r.varmkt, !.raw = r.raw,
                              !.sigma = r.sigma, !.result = r.sigma]
    /\ shrinkage_parameter' = [shrinkage_parameter EXCEPT !.own = r.shrinkage_parameter]

\* calculate(coordinates, reference) on the caller's own EstimatorShrinkage
CallShrinkage ==
    /\ call.op = "none"
    /\ \E reference \in References(coordinates, ReferenceFrames) \ {ColMean(coordinates)} :
          ShrinkageReturns(reference,
                           EstimatorShrinkage_calculate(shrinkage_parameter.own,
                                                        coordinates, reference))
    /\ UNCHANGED coordinates

\* what the estimator argument of covariance_matrix returns and the
\* attribute it leaves on its instance: "default" is the argument left out,
\* the instance of line 194
Estimate(estimator, reference) ==
    IF estimator = "ML"
    THEN [sigma |-> EstimatorML_calculate(coordinates, reference),
          shrinkage_parameter |-> None, varmkt |-> None, raw |-> None]
    ELSE EstimatorShrinkage_calculate(shrinkage_parameter[estimator], coordinates, reference)

\* the per-atom masses line 254 reads, when the call weights at all
MassesRead(mass_weighted) ==
    IF mass_weighted
    THEN [1..(Cols(coordinates) \div Axes) -> {Num(m) : m \in MassVals}]
    ELSE {None}

\* lines 248-260, the estimator having returned r
CovarianceReturns(estimator, reference, r) ==
    /\ shrinkage_parameter' =
          IF estimator = "ML" THEN shrinkage_parameter
          ELSE [shrinkage_parameter EXCEPT ![estimator] = r.shrinkage_parameter]
    /\ \E mass_weighted \in BOOLEAN :
       \E masses \in MassesRead(mass_weighted) :
          call' = [op |-> "covariance_matrix", estimator |-> estimator,
                   reference |-> reference,
                   before |-> IF estimator = "ML" THEN None
                              ELSE shrinkage_parameter[estimator],
                   mass_weighted |-> mass_weighted, masses |-> masses,
                   varmkt |-> r.varmkt, raw |-> r.raw,
                   sigma |-> r.sigma,
                   result |-> Weighted(r.sigma, mass_weighted, masses)]

\* covariance_matrix(ensemble, estimator=..., mass_weighted=..., reference=...)
covariance_matrix ==
    /\ call.op = "none"
    /\ Cols(coordinates) % Axes = 0
    /\ \E estimator \in {"default", "own", "ML"} :
       \E reference \in References(coordinates, ReferenceFrames) \ {ColMean(coordinates)} :
          CovarianceReturns(estimator, reference, Estimate(estimator, reference))
    /\ UNCHANGED coordinates

Next ==
    \/ Continue
    \/ LoadEnsemble
    \/ NewEstimator
    \/ CallML
    \/ CallShrinkage
    \/ covariance_matrix

Spec == Init /\ [][Next]_vars

\* the ML estimator alone, as a function of its arguments
InitML ==
    /\ coordinates \in Observations(FramesML, 1)
    /\ shrinkage_parameter = [default |-> EstimatorShrinkage_init(None),
                              own |-> EstimatorShrinkage_init(None)]
    /\ call = NoCall

CallMLOnly ==
    /\ call.op = "none"
    /\ \E reference \in References(coordinates, FramesML) :
          LET sigma == EstimatorML_calculate(coordinates, reference)
          IN  call' = [NoCall EXCEPT !.op = "EstimatorML", !.estimator = "ML",
                                     !.reference = reference,
                                     !.sigma = sigma, !.result = sigma]
    /\ UNCHANGED <<coordinates, shrinkage_parameter>>

SpecML == InitML /\ [][CallMLOnly]_vars


(***************************************************************************)
(* What the properties below compare the returned matrices with: sums of   *)
(* products of deviations, computed in integers from the observations.     *)
(***************************************************************************)
RECURSIVE IntSum(_)
IntSum(s) == IF Len(s) = 0 THEN 0 ELSE IntSum(SubSeq(s, 1, Len(s) - 1)) + s[Len(s)]

T == Rows(coordinates)

D == Cols(coordinates)

\* the column sums over the frame count: the column means, as fractions
MeanFractions == MkVec(D, LAMBDA i : <<IntSum(MkVec(T, LAMBDA f : coordinates[f][i][1])), T>>)

\* d * (x[f][i] - n/d) for the centre c[i] = <<n, d>>
Deviation(f, i, c) == c[i][2] * coordinates[f][i][1] - c[i][1]

\* the sum over the frames of (x[f][i] - c[i]) * (x[f][j] - c[j]), over divisor
SumOfProducts(i, j, c, divisor) ==
    Rat(IntSum(MkVec(T, LAMBDA f : Deviation(f, i, c) * Deviation(f, j, c))),
        c[i][2] * c[j][2] * divisor)

\* the centre of a call: its reference, or the column means
Centre == IF call.reference # None THEN call.reference ELSE MeanFractions

InUnit(v) == Le(Zero, v) /\ Le(v, One)

ByShrinkage == call.estimator \in {"own", "default"}

Example == ToNums(<<<<1, 2>>, <<3, 4>>, <<5, 6>>>>)

Fours == ToNums(<<<<4, 4>>, <<4, 4>>>>)

\* C1: EstimatorML.calculate without a reference, on T >= 2 frames, returns
\* the unbiased sample covariance: entry [i][j] is the sum over the frames of
\* (x[t][i] - mean_i)*(x[t][j] - mean_j) divided by T - 1; the observations
\* [[1,2],[3,4],[5,6]] give [[4,4],[4,4]].
C1_UnbiasedSampleCovariance ==
    (call.op = "EstimatorML" /\ call.reference = None /\ T >= 2) =>
        /\ \A i, j \in 1..D :
              call.result[i][j] = SumOfProducts(i, j, MeanFractions, T - 1)
        /\ coordinates = Example => call.result = Fours

C1_Witness ==
    /\ call.op = "EstimatorML"
    /\ call.reference = None
    /\ coordinates = Example
    /\ call.result = Fours

\* C2: EstimatorML.calculate with a reference r returns the sum over the
\* frames of the outer products (x[t] - r)(x[t] - r)^T divided by T, centred
\* on r; when r is the column mean (T >= 2, where the result without a
\* reference is a covariance) it equals the result without a reference
\* times (T-1)/T.
C2_ReferenceCentredPopulation ==
    (call.op = "EstimatorML" /\ call.reference # None) =>
        /\ \A i, j \in 1..D :
              call.result[i][j] = SumOfProducts(i, j, call.reference, T)
        /\ (call.reference = ColMean(coordinates) /\ T >= 2) =>
              \A i, j \in 1..D :
                 call.result[i][j] =
                    Mul(EstimatorML_calculate(coordinates, None)[i][j], Rat(T - 1, T))

C2_Witness ==
    /\ call.op = "EstimatorML"
    /\ coordinates = Example
    /\ call.reference = ColMean(coordinates)
    /\ call.result[1][2] = Rat(8, 3)
    /\ EstimatorML_calculate(coordinates, None)[1][2] = Num(4)

\* inputs the shrinkage estimator is defined on: two frames or more and a
\* market factor with a variance
NonDegenerate == T >= 2 /\ call.varmkt # None /\ IsFin(call.varmkt) /\ call.varmkt # Zero

\* C3: an EstimatorShrinkage constructed with shrinkage_parameter = 0
\* returns, on a non-degenerate input, the population-normalized sample
\* covariance: entry [i][j] is 1/T times the sum over the frames of the
\* products of the centred values.
C3_ZeroParameterIsPopulationSample ==
    (call.op = "EstimatorShrinkage" /\ call.before = Zero /\ NonDegenerate) =>
        \A i, j \in 1..D : call.result[i][j] = SumOfProducts(i, j, Centre, T)

\* what the code returns there: the sample block, a factor (T-1)/T smaller
ZeroParameterIsScaledSample ==
    (call.op = "EstimatorShrinkage" /\ call.before = Zero /\ NonDegenerate) =>
        \A i, j \in 1..D :
           call.result[i][j] = Mul(SumOfProducts(i, j, Centre, T), Rat(T - 1, T))

\* C4: the parameter stored on an instance constructed without one is unset
\* or in [0,1]: k/T is stored as 0 when it is negative, as 1 when it exceeds
\* 1, and as it is in between.
C4_EstimateClamped ==
    /\ shrinkage_parameter.default = None \/ InUnit(shrinkage_parameter.default)
    /\ (ByShrinkage /\ call.before = None) =>
          /\ InUnit(shrinkage_parameter[call.estimator])
          /\ Lt(call.raw, Zero) => shrinkage_parameter[call.estimator] = Zero
          /\ Lt(One, call.raw) => shrinkage_parameter[call.estimator] = One
          /\ InUnit(call.raw) => shrinkage_parameter[call.estimator] = call.raw

C4_Witness ==
    /\ ByShrinkage
    /\ call.before = None
    /\ NonDegenerate
    /\ IsFin(call.raw)
    /\ Lt(One, call.raw)
    /\ shrinkage_parameter[call.estimator] = One

\* k/T below 0 stored as 0, and k/T strictly inside (0, 1) stored as it is
ClampedFromBelow ==
    ByShrinkage /\ call.before = None /\ NonDegenerate /\ Lt(call.raw, Zero)
    /\ shrinkage_parameter[call.estimator] = Zero

StoredInside ==
    ByShrinkage /\ call.before = None /\ NonDegenerate
    /\ Lt(Zero, call.raw) /\ Lt(call.raw, One)

\* C5: a calculate call on an instance whose parameter is set leaves the
\* parameter as it is and estimates nothing, whatever the observations; a
\* call on an instance whose parameter is unset estimates it from the call's
\* own data and stores it.
C5_StoredParameterReused ==
    [][(call'.op # "none" /\ call'.estimator \in {"own", "default"}) =>
          IF shrinkage_parameter[call'.estimator] # None
          THEN /\ shrinkage_parameter'[call'.estimator] = shrinkage_parameter[call'.estimator]
               /\ call'.raw = None
          ELSE /\ call'.raw # None
               /\ shrinkage_parameter'[call'.estimator] = Clamped(call'.raw)]_vars

\* a call on an instance that holds an estimate made from other
\* observations, which the observations of this call would not give
C5_Witness ==
    /\ ByShrinkage
    /\ call.before # None
    /\ call.before \notin ExplicitParameters
    /\ call.raw = None
    /\ shrinkage_parameter[call.estimator] = call.before
    /\ NonDegenerate
    /\ EstimatorShrinkage_calculate(None, coordinates, call.reference).shrinkage_parameter
          # call.before

\* C6: covariance_matrix without an estimator argument blends with the
\* parameter estimated from the observations of that very call.
C6_DefaultEstimatorFresh ==
    (call.op = "covariance_matrix" /\ call.estimator = "default") =>
        /\ shrinkage_parameter.default =
              EstimatorShrinkage_calculate(None, coordinates, call.reference).shrinkage_parameter
        /\ call.sigma = EstimatorShrinkage_calculate(None, coordinates, call.reference).sigma

\* C7: no calculate call returns a matrix blended with a shrinkage parameter
\* below 0 or above 1; a parameter set outside [0,1] is rejected.
C7_ParameterInRange ==
    (ByShrinkage /\ call.result # None) => InUnit(shrinkage_parameter[call.estimator])

\* C8: every matrix returned is symmetric and has a diagonal >= 0.
C8_SymmetricNonNegativeDiagonal ==
    call.op # "none" =>
        \A i, j \in 1..D :
           /\ FEq(call.result[i][j], call.result[j][i])
           /\ Le(Zero, call.result[i][i])

NoNaN(m) == \A i \in 1..Rows(m), j \in 1..Cols(m) : ~IsNaN(m[i][j])

\* what holds of the code: symmetric with a diagonal >= 0 whenever the
\* estimator's matrix has no nan in it
SymmetricWhereDefined ==
    (call.op # "none" /\ NoNaN(call.sigma)) =>
        \A i, j \in 1..D :
           /\ FEq(call.result[i][j], call.result[j][i])
           /\ Le(Zero, call.result[i][i])

\* the weight of dimension i: the mass of its atom
Weight(i) == call.masses[((i - 1) \div Axes) + 1]

\* C9: with weighting, covariance_matrix returns the matrix whose entry
\* [i][j] is sqrt(w_i)*sqrt(w_j)*Sigma[i][j], which is Sigma when all the
\* weights are 1; without weighting it returns Sigma.
C9_WeightingCongruence ==
    call.op = "covariance_matrix" =>
        IF call.mass_weighted
        THEN /\ \A i, j \in 1..D :
                   call.result[i][j] =
                      Mul(Mul(Sqrt(Weight(i)), Sqrt(Weight(j))), call.sigma[i][j])
             /\ (\A a \in 1..Len(call.masses) : call.masses[a] = One) =>
                   call.result = call.sigma
        ELSE call.result = call.sigma

\* what holds of the code: the same, whenever Sigma has no nan in it
WeightingWhereDefined ==
    (call.op = "covariance_matrix" /\ NoNaN(call.sigma)) =>
        IF call.mass_weighted
        THEN \A i, j \in 1..D :
                call.result[i][j] =
                   Mul(Mul(Sqrt(Weight(i)), Sqrt(Weight(j))), call.sigma[i][j])
        ELSE call.result = call.sigma

\* C10: with a market factor of zero variance, EstimatorShrinkage.calculate
\* returns no matrix and stores no shrinkage parameter.
C10_ZeroVarianceFails ==
    (ByShrinkage /\ call.varmkt = Zero) =>
        /\ call.result = None
        /\ call.before = None => shrinkage_parameter[call.estimator] = None

\* what the code does there: a matrix with nan off the diagonal, and 1 stored
ZeroVarianceReturnsNaN ==
    (ByShrinkage /\ call.varmkt = Zero /\ D >= 2) =>
        /\ \A i, j \in 1..D : i # j => IsNaN(call.sigma[i][j])
        /\ call.before = None => shrinkage_parameter[call.estimator] = One

=============================================================================
